---- MODULE Spec2Model ----
(***************************************************************************)
(* A model of the Series class of data.py: a monthly series anchored at    *)
(* first_year, extended a year at a time by add_year (with MISSING padding  *)
(* for skipped years) and read through __len__, last_year, good_count,      *)
(* has_data_for_year and get_a_year.                                        *)
(*                                                                         *)
(* Values are modelled as integers: the code only ever compares a value    *)
(* with MISSING by equality, so 9999.0 is the integer 9999 here.           *)
(* An assert that fails is an AssertionError; the outcome of add_year names *)
(* which assert failed: line 122 "InvalidArgument", line 132               *)
(* "InternalInvariant", line 136 "SequenceViolation".                      *)
(***************************************************************************)
EXTENDS Integers, Sequences, FiniteSets

VARIABLES
    first_year,    \* self.first_year (0 is falsy: "unset")
    series,        \* self.series, the list of monthly values
    missing_year,  \* Series.missing_year, the class-level template list
    ret,           \* the list the caller got from get_a_year, while it works on it
    last,          \* the last call made on the Series and how it ended
    pre,           \* first_year and series as they were when that call began
    stored         \* the (year, data) of every add_year call that reached line 138

vars == <<first_year, series, missing_year, ret, last, pre, stored>>

----------------------------------------------------------------------------
(* Bounds of the model. *)

\* add_year calls are explored while the series holds at most MaxYears years.
MaxYears == 4

----------------------------------------------------------------------------
(* Constants and helpers. *)

MISSING == 9999

\* Python's [v] * n (the empty list when n <= 0).
Rep(n, v) == IF n <= 0 THEN <<>> ELSE [i \in 1..n |-> v]

\* Python's s.count(v).
Count(s, v) == Cardinality({i \in DOMAIN s : s[i] = v})

Min(a, b) == IF a <= b THEN a ELSE b

\* Python's s[start:stop] for 0 <= start.
Slice(s, start, stop) == SubSeq(s, start + 1, Min(stop, Len(s)))

\* The arguments the callers pass.  Years around zero (where "unset" and a
\* real year coincide) and around 1900.
Years == {-1, 0} \cup (1899 .. 1899 + MaxYears)

\* first_year as given to the constructor: unset, or 1900.
FirstYears == {0, 1900}

\* A data list of n values: m MISSING months, then the value m + 1.
MkData(n, m) == [i \in 1..n |-> IF i <= m THEN MISSING ELSE m + 1]

\* Data of the right length (without and with a MISSING month) and of a wrong
\* length.
GoodData == {MkData(12, m) : m \in {0, 1}}
BadData == {MkData(n, 0) : n \in {11, 13}}
DataInputs == GoodData \cup BadData

\* The month index a caller writes to in a list it was returned, and what
\* it writes.
MutIdx == {1}
MutVals == {0}

----------------------------------------------------------------------------
(* Read accessors. *)

LastYearOf(fy, s) == fy + (Len(s) \div 12) - 1

last_year == LastYearOf(first_year, series)

len == Len(series)

\* Mutant: returns the number of bad values.
good_count_bad == Count(series, MISSING)

\* Mutant: forgets to subtract the bad values.
good_count_all == Len(series)

good_count ==
    LET bad_count == Count(series, MISSING)
    IN  Len(series) - bad_count

has_data_for_year(year) == first_year <= year /\ year <= last_year

\* A list object: which object it is, and its contents.
NewList(s) == [obj |-> "new", val |-> s]

\* Mutant: stop is one month short.
YearSliceShort(year) ==
    LET start == (year - first_year) * 12
        stop == start + 11
    IN  NewList(Slice(series, start, stop))

\* series[start:stop] builds a new list.
YearSlice(year) ==
    LET start == (year - first_year) * 12
        stop == start + 12
    IN  NewList(Slice(series, start, stop))

\* Mutant: returns the template itself.
MissingShared == [obj |-> "missing_year", val |-> missing_year]

\* list(self.missing_year) builds a new list.
MissingCopy == NewList(missing_year)

get_a_year(year) ==
    IF has_data_for_year(year) THEN YearSlice(year) ELSE MissingCopy

----------------------------------------------------------------------------
(* add_year, step by step. *)

\* Mutant: accepts short data.
data_ok_atmost(data) == Len(data) <= 12

\* assert len(data) == 12
data_ok(data) == Len(data) = 12

\* if not self.first_year: self.first_year = year
unset(fy) == fy = 0

anchored(year) == IF unset(first_year) THEN year ELSE first_year

\* Mutant: off by one year.
gap_wide(year) == year - last_year

\* gap = year - self.last_year - 1 (in the else branch: first_year as it was)
gap(year) == year - last_year - 1

\* Mutant: pads months, not years.
pad_len_months(year) == gap(year)

pad_len(year) == gap(year) * 12

\* Mutant: the padding replaces the series instead of extending it.
padded_replace(year) ==
    IF ~unset(first_year) /\ gap(year) > 0
    THEN Rep(pad_len(year), MISSING)
    ELSE series

\* if gap > 0: self.series.extend([MISSING] * (gap * 12))
padded(year) ==
    IF ~unset(first_year) /\ gap(year) > 0
    THEN series \o Rep(pad_len(year), MISSING)
    ELSE series

\* assert len(self) % 12 == 0
whole_years(s) == Len(s) % 12 = 0

\* Mutant: off by one year.
before_first_off(year, fy) == year < fy - 1

\* if year < self.first_year: return
before_first(year, fy) == year < fy

\* Mutant: the assert is missing.
next_expected_any(year, fy, s) == TRUE

\* assert year == self.last_year + 1
next_expected(year, fy, s) == year = LastYearOf(fy, s) + 1

\* ret: the object returned (obj), its contents now (val) and when it was
\* returned (returned), and the year asked for.  When the call before was a
\* get_a_year for the same year (again), prev is what that call returned and
\* prev_mutated tells whether the caller had written into that list.
NoRet ==
    [obj |-> "none", val |-> <<>>, year |-> 0, returned |-> <<>>,
     again |-> FALSE, prev |-> <<>>, prev_mutated |-> FALSE]

Call(op, year, data, outcome, value, flag) ==
    [op |-> op, year |-> year, data |-> data, outcome |-> outcome,
     value |-> value, flag |-> flag]

Snapshot == [first_year |-> first_year, series |-> series]

\* The outcome of add_year(year, data) and the instance it leaves.
add_year(year, data) ==
    IF ~data_ok(data)
    THEN [outcome |-> "InvalidArgument", first_year |-> first_year,
          series |-> series, stores |-> FALSE]
    ELSE LET fy == anchored(year)
             s == padded(year)
         IN  IF ~whole_years(s)
             THEN [outcome |-> "InternalInvariant", first_year |-> fy,
                   series |-> s, stores |-> FALSE]
             ELSE IF before_first(year, fy)
             THEN [outcome |-> "ignored", first_year |-> fy,
                   series |-> s, stores |-> FALSE]
             ELSE IF ~next_expected(year, fy, s)
             THEN [outcome |-> "SequenceViolation", first_year |-> fy,
                   series |-> s, stores |-> FALSE]
             ELSE [outcome |-> "ok", first_year |-> fy,
                   series |-> s \o data, stores |-> TRUE]

AddYear(year, data) ==
    /\ data_ok(data) /\ ~unset(first_year) => pad_len(year) <= MaxYears * 12
    /\ LET r == add_year(year, data)
       IN  /\ Len(r.series) <= MaxYears * 12
           /\ first_year' = r.first_year
           /\ series' = r.series
           /\ last' = Call("add_year", year, data, r.outcome, 0, FALSE)
           /\ stored' = IF r.stores
                        THEN Append(stored, [year |-> year, data |-> data])
                        ELSE stored
    /\ pre' = Snapshot
    /\ ret' = NoRet
    /\ UNCHANGED missing_year

----------------------------------------------------------------------------
(* The read calls. *)

ReadLen ==
    /\ last' = Call("len", 0, <<>>, "ok", len, FALSE)
    /\ pre' = Snapshot
    /\ ret' = NoRet
    /\ UNCHANGED <<first_year, series, missing_year, stored>>

ReadLastYear ==
    /\ last' = Call("last_year", 0, <<>>, "ok", last_year, FALSE)
    /\ pre' = Snapshot
    /\ ret' = NoRet
    /\ UNCHANGED <<first_year, series, missing_year, stored>>

ReadGoodCount ==
    /\ last' = Call("good_count", 0, <<>>, "ok", good_count, FALSE)
    /\ pre' = Snapshot
    /\ ret' = NoRet
    /\ UNCHANGED <<first_year, series, missing_year, stored>>

\* Mutant: anchors an unset first_year, as add_year does.
ReadHasDataAnchoring(year) ==
    /\ first_year' = anchored(year)
    /\ last' = Call("has_data_for_year", year, <<>>, "ok", 0,
                    anchored(year) <= year
                        /\ year <= LastYearOf(anchored(year), series))
    /\ pre' = Snapshot
    /\ ret' = NoRet
    /\ UNCHANGED <<series, missing_year, stored>>

ReadHasData(year) ==
    /\ last' = Call("has_data_for_year", year, <<>>, "ok", 0,
                    has_data_for_year(year))
    /\ pre' = Snapshot
    /\ ret' = NoRet
    /\ UNCHANGED <<first_year, series, missing_year, stored>>

GetAYear(year) ==
    /\ LET l == get_a_year(year)
           again == ret.obj # "none" /\ ret.year = year
       IN  ret' = [obj |-> l.obj, val |-> l.val, year |-> year,
                   returned |-> l.val, again |-> again,
                   prev |-> IF again THEN ret.returned ELSE <<>>,
                   prev_mutated |-> again /\ ret.val # ret.returned]
    /\ last' = Call("get_a_year", year, <<>>, "ok", 0, FALSE)
    /\ pre' = Snapshot
    /\ UNCHANGED <<first_year, series, missing_year, stored>>

\* The caller writes v into month i of the list it was last returned.  The
\* write lands in whichever object that list is.
MutateReturned(i, v) ==
    /\ ret.obj # "none"
    /\ i \in DOMAIN ret.val
    /\ ret.val[i] # v
    /\ ret' = [ret EXCEPT !.val[i] = v]
    /\ missing_year' = IF ret.obj = "missing_year"
                       THEN [missing_year EXCEPT ![i] = v]
                       ELSE missing_year
    /\ last' = Call("mutate", ret.year, <<>>, "ok", 0, FALSE)
    /\ pre' = Snapshot
    /\ UNCHANGED <<first_year, series, stored>>

----------------------------------------------------------------------------

Init ==
    /\ first_year \in FirstYears
    /\ series = <<>>
    /\ missing_year = Rep(12, MISSING)
    /\ ret = NoRet
    /\ last = Call("init", 0, <<>>, "ok", 0, FALSE)
    /\ pre = [first_year |-> first_year, series |-> <<>>]
    /\ stored = <<>>

Next ==
    \/ \E year \in Years, data \in DataInputs : AddYear(year, data)
    \/ ReadLen
    \/ ReadLastYear
    \/ ReadGoodCount
    \/ \E year \in Years : ReadHasData(year)
    \/ \E year \in Years : GetAYear(year)
    \/ \E i \in MutIdx, v \in MutVals : MutateReturned(i, v)

Spec == Init /\ [][Next]_vars

----------------------------------------------------------------------------
(* Properties. *)

\* last_year when the last call began.
PreLastYear == pre.first_year + (Len(pre.series) \div 12) - 1

\* last_year now.
NowLastYear == first_year + (Len(series) \div 12) - 1

AllMissing == [i \in 1..12 |-> MISSING]

StoredYears == [i \in 1..Len(stored) |-> stored[i].year]

IsAddYear == last.op = "add_year"

Untouched == series = pre.series /\ first_year = pre.first_year

\* The months of year y, read off series.
MonthsOf(y) == [i \in 1..12 |-> series[(y - first_year) * 12 + i]]

Covered(y) == first_year <= y /\ y <= NowLastYear

\* C1: after any sequence of add_year calls (storing, ignored, failing) the
\* series holds a whole number of years, and the assert len(self) % 12 == 0 of
\* add_year never fails.
C1_WholeYears ==
    /\ Len(series) % 12 = 0
    /\ last.outcome # "InternalInvariant"

\* An add_year call that padded skipped years before storing.
C1_Witness ==
    /\ IsAddYear
    /\ last.outcome = "ok"
    /\ Len(series) > Len(pre.series) + 12

\* C2: with first_year set, add_year(year, data) with 12 values and
\* year > last_year leaves the old series, then (year - last_year - 1) * 12
\* MISSING, then data, and last_year = year; after 1900, 1901, 1903 (anchored
\* at 1900): last_year = 1903, 48 months, 1902 all MISSING.
C2_PadAndAppend ==
    /\ (IsAddYear /\ pre.first_year # 0 /\ Len(last.data) = 12
            /\ last.year > PreLastYear)
       => /\ last.outcome = "ok"
          /\ series = pre.series
                        \o [i \in 1..((last.year - PreLastYear - 1) * 12)
                              |-> MISSING]
                        \o last.data
          /\ first_year = pre.first_year
          /\ NowLastYear = last.year
    /\ (first_year = 1900 /\ StoredYears = <<1900, 1901, 1903>>)
       => /\ NowLastYear = 1903
          /\ Len(series) = 48
          /\ get_a_year(1902).val = AllMissing

\* 1903 has just been stored after 1900 and 1901.
C2_Witness ==
    /\ IsAddYear
    /\ last.year = 1903
    /\ pre.first_year = 1900
    /\ StoredYears = <<1900, 1901, 1903>>

\* C3 as stated (for a Series whose first_year is set): a 12-value add_year
\* whose year is neither last_year + 1 nor before first_year fails with
\* SequenceViolation and appends nothing.
C3_Original ==
    (IsAddYear /\ pre.first_year # 0 /\ Len(last.data) = 12
        /\ last.year # PreLastYear + 1 /\ ~(last.year < pre.first_year))
    => (last.outcome = "SequenceViolation" /\ series = pre.series)

\* C3 amended: with first_year set, a 12-value add_year fails with
\* SequenceViolation exactly when its year is already covered
\* (first_year <= year <= last_year), and then changes nothing; a year beyond
\* last_year + 1 is stored after padding, so add_year(1902) after
\* Series(1900), add_year(1900) is accepted.
C3_CoveredYearRejected ==
    (IsAddYear /\ pre.first_year # 0 /\ Len(last.data) = 12)
    => /\ (last.outcome = "SequenceViolation")
            <=> (pre.first_year <= last.year /\ last.year <= PreLastYear)
       /\ last.outcome = "SequenceViolation" => Untouched
       /\ last.year > PreLastYear + 1 => last.outcome = "ok"
       /\ (pre.first_year = 1900 /\ PreLastYear = 1900 /\ last.year = 1902)
            => (Len(series) = 36 /\ MonthsOf(1901) = AllMissing
                    /\ MonthsOf(1902) = last.data)

\* A call for a year the populated series already covers was rejected.
C3_Witness ==
    /\ IsAddYear
    /\ pre.first_year # 0
    /\ last.outcome = "SequenceViolation"
    /\ pre.first_year <= last.year
    /\ last.year <= PreLastYear

\* C4: with first_year set, add_year(year, data) with 12 values and
\* year < first_year is ignored: no error, no padding, series, first_year and
\* last_year as they were.
C4_IgnoredBeforeFirst ==
    (IsAddYear /\ pre.first_year # 0 /\ Len(last.data) = 12
        /\ last.year < pre.first_year)
    => (last.outcome = "ignored" /\ Untouched /\ NowLastYear = PreLastYear)

\* A year before first_year was offered to a populated series.
C4_Witness ==
    /\ IsAddYear
    /\ pre.first_year # 0
    /\ Len(last.data) = 12
    /\ last.year < pre.first_year
    /\ Len(pre.series) > 0

\* C5: add_year is atomic: a call either appends the full year (after its
\* padding) or changes nothing; a call that ends in an error leaves series and
\* first_year as they were.
C5_Atomic ==
    IsAddYear
    => \/ Untouched
       \/ /\ last.outcome = "ok"
          /\ Len(series) >= Len(pre.series) + 12
          /\ SubSeq(series, 1, Len(pre.series)) = pre.series
          /\ SubSeq(series, Len(series) - 11, Len(series)) = last.data

\* C6: add_year with len(data) # 12 fails with InvalidArgument and leaves
\* series and first_year as they were, first_year set or not.
C6_BadLength ==
    (IsAddYear /\ Len(last.data) # 12)
    => (last.outcome = "InvalidArgument" /\ Untouched)

\* Data of a wrong length was offered to a Series whose first_year is unset.
C6_Witness ==
    /\ IsAddYear
    /\ Len(last.data) # 12
    /\ pre.first_year = 0
    /\ last.year # 0

\* The calls that stored were 1900, 1901, 1903, none with a MISSING value.
Scenario190013 ==
    /\ StoredYears = <<1900, 1901, 1903>>
    /\ \A k \in 1..Len(stored) : \A i \in 1..12 : stored[k].data[i] # MISSING

\* C7 as stated: after adding 1900, 1901 and 1903 without MISSING values,
\* good_count() is 24.
C7_Original ==
    (last.op = "good_count" /\ Scenario190013) => last.value = 24

\* C7 amended: after adding 1900, 1901 and 1903 without MISSING values,
\* good_count() is 36 (three stored years; only the 12 months of 1902 are
\* MISSING).
C7_GoodCount36 ==
    (last.op = "good_count" /\ Scenario190013) => last.value = 36

\* good_count() was called after the three years were added.
C7_Witness ==
    /\ last.op = "good_count"
    /\ Scenario190013

\* C8: for first_year <= year <= last_year, get_a_year(year) returns the 12
\* values series[(year - first_year) * 12 ..+ 11]; asked again with no
\* add_year in between it returns an equal list.
C8_YearSlice ==
    (ret.obj # "none" /\ Covered(ret.year))
    => /\ ret.returned = MonthsOf(ret.year)
       /\ ret.again => ret.returned = ret.prev

\* A stored year was asked for twice in a row, the first list having been
\* written into by the caller.
C8_Witness ==
    /\ last.op = "get_a_year"
    /\ Covered(ret.year)
    /\ ret.again
    /\ ret.prev_mutated
    /\ ret.returned # AllMissing

\* C9: for a year outside first_year..last_year get_a_year returns a new list
\* of 12 MISSING; writing into it changes neither missing_year nor the Series,
\* and a later call again returns 12 MISSING.
C9_FreshMissing ==
    /\ missing_year = AllMissing
    /\ (ret.obj # "none" /\ ~Covered(ret.year))
       => (ret.obj = "new" /\ ret.returned = AllMissing)
    /\ last.op = "mutate" => Untouched

\* An absent year was asked for again after the caller wrote into the list
\* returned for it.
C9_Witness ==
    /\ last.op = "get_a_year"
    /\ ~Covered(ret.year)
    /\ ret.again
    /\ ret.prev_mutated

\* C10: good_count() is the number of stored months whose value is not
\* MISSING: padding and supplied MISSING values are not counted.
C10_GoodCount ==
    last.op = "good_count"
    => last.value = Cardinality({i \in 1..Len(series) : series[i] # MISSING})

\* good_count() on a series with padding, a supplied MISSING value and good
\* values.
C10_Witness ==
    /\ last.op = "good_count"
    /\ Len(series) > 12 * Len(stored)
    /\ \E k \in 1..Len(stored) : stored[k].data[1] = MISSING
    /\ last.value > 0

\* C11: first_year is changed only by the first add_year call on a Series
\* whose first_year is unset; once the series holds data no add_year call
\* (stored, ignored or failing) changes first_year, whatever its year.
C11_AnchorFixed ==
    IsAddYear
    => /\ first_year # pre.first_year
            => (pre.first_year = 0 /\ Len(pre.series) = 0
                    /\ first_year = last.year)
       /\ Len(pre.series) > 0 => first_year = pre.first_year

\* C12: the years of the storing calls are strictly increasing; a call for a
\* covered year (first_year <= year <= last_year) fails and changes nothing;
\* last_year never decreases.
C12_IncreasingYears ==
    /\ \A j, k \in 1..Len(stored) : j < k => stored[j].year < stored[k].year
    /\ (IsAddYear /\ Len(last.data) = 12 /\ pre.first_year <= last.year
            /\ last.year <= PreLastYear)
       => (last.outcome = "SequenceViolation" /\ Untouched)
    /\ last.op # "init" => NowLastYear >= PreLastYear

\* C13: every year in first_year..last_year reports the data of the add_year
\* call that stored it, or 12 MISSING when no call stored it; every stored
\* year stays inside first_year..last_year with its data.
C13_YearsKeepData ==
    /\ \A y \in Years :
         Covered(y)
         => IF \E k \in 1..Len(stored) : stored[k].year = y
            THEN \E k \in 1..Len(stored) :
                    stored[k].year = y /\ MonthsOf(y) = stored[k].data
            ELSE MonthsOf(y) = AllMissing
    /\ \A k \in 1..Len(stored) :
         /\ Covered(stored[k].year)
         /\ MonthsOf(stored[k].year) = stored[k].data

\* C14: the series is append-only: across every call the old series is a
\* prefix of the new one, and an add_year call either leaves it unchanged or
\* appends MISSING padding (whole years) followed by the 12 values of data.
C14_AppendOnly ==
    /\ Len(series) >= Len(pre.series)
    /\ SubSeq(series, 1, Len(pre.series)) = pre.series
    /\ Len(pre.series) > 0 => Len(series) > 0
    /\ IsAddYear
       => \/ series = pre.series
          \/ /\ last.outcome = "ok"
             /\ (Len(series) - Len(pre.series)) % 12 = 0
             /\ SubSeq(series, Len(series) - 11, Len(series)) = last.data
             /\ \A i \in (Len(pre.series) + 1)..(Len(series) - 12) :
                    series[i] = MISSING

\* A populated series was extended by padding and a year of data.
C14_Witness ==
    /\ IsAddYear
    /\ last.outcome = "ok"
    /\ Len(pre.series) > 0
    /\ Len(series) > Len(pre.series) + 12

ReadOps == {"len", "last_year", "good_count", "has_data_for_year", "get_a_year"}

\* C15: len, last_year, good_count, has_data_for_year and get_a_year leave
\* first_year and series (and the missing_year template) as they were, and
\* what they report is read off first_year and series alone, so reads made in
\* between change no later result.
C15_ReadsChangeNothing ==
    /\ last.op \in ReadOps => (Untouched /\ missing_year = AllMissing)
    /\ last.op = "len" => last.value = Len(series)
    /\ last.op = "last_year" => last.value = NowLastYear
    /\ last.op = "has_data_for_year" => (last.flag <=> Covered(last.year))
    /\ last.op = "get_a_year"
       => ret.returned = IF Covered(last.year) THEN MonthsOf(last.year)
                         ELSE AllMissing

\* A read that directly followed another read, on a populated series whose
\* first_year was set by add_year.
C15_Witness ==
    /\ last.op = "get_a_year"
    /\ ret.again
    /\ Len(series) > 0
    /\ Len(stored) > 0
    /\ stored[1].year = first_year

====
